---------------------------- MODULE Spec2Model ----------------------------
(***************************************************************************)
(* Model of backend/server.py: the vendor, product and order collections   *)
(* of the marketplace backend and the request handlers that read and write *)
(* them.  Every "await db.<collection>.<op>(...)" of a handler is one      *)
(* atomic step; a handler with several awaits is a small process whose     *)
(* steps interleave with the steps of the other handlers.                  *)
(*                                                                         *)
(* Fields that no handler branches on (telefone, senha, descricao,         *)
(* categoria, imagem, cliente_*, observacoes, created_at) are left out of  *)
(* the documents.  uuid4 ids are modelled as fresh naturals; id 0 stands   *)
(* for an id (or a token) that was never issued.  Prices are whole numbers *)
(* (currency units), quantities are integers.                              *)
(***************************************************************************)
EXTENDS Integers, Sequences, FiniteSets, TLC

\* ---------------------------------------------------------------- bounds
MaxVendors == 3
MaxProducts == 2
MaxOrders == 2
MaxItems == 2
MaxLineItems == 2

\* Concurrent handlers of each multi-step route.
RegSlots == {1, 2}
UpdSlots == {1}
OrderSlots == {1, 2}

\* Request inputs.
Emails == {"a@x", "b@x", "c@x"}
StoreNames == {"loja1", "loja2"}
ProductNames == {"alface", "tomate"}
Prices == {1, 2}
ProductQuantities == {-1, 1, 2}
ItemQuantities == {-1, 1, 2}
StatusInputs == {"novo", "aceito", "em_preparo", "entregue", "cancelado", "outro"}

\* The stored order document carries no "status" key until it is $set.
NoStatus == "(absent)"

VARIABLES
    vendors,      \* db.vendors: sequence of documents, in insertion order
    products,     \* db.products: function from the ids of stored products to documents
    nProducts,    \* number of product ids issued so far
    orders,       \* db.orders: sequence of documents, in insertion order
    regReq,       \* register_vendor handlers in flight
    updReq,       \* update_product handlers in flight
    orderReq,     \* create_order handlers in flight
    resp          \* the response sent last

vars == <<vendors, products, nProducts, orders, regReq, updReq, orderReq, resp>>

IdleReg == [pc |-> "idle", email |-> "", nome_loja |-> ""]
IdleUpd == [pc |-> "idle", vendor_id |-> 0, product_id |-> 0, nome |-> "", preco |-> 0, quantidade |-> 0]
IdleOrder == [pc |-> "idle", vendor_id |-> 0, items |-> <<>>, i |-> 0]

Response(op, code) == [op |-> op, code |-> code]

\* ------------------------------------------------------------- helpers
RECURSIVE SeqsUpTo(_, _)
SeqsUpTo(S, n) ==
    IF n = 0 THEN {<<>>}
    ELSE LET shorter == SeqsUpTo(S, n - 1)
         IN shorter \cup {Append(s, x) : s \in {t \in shorter : Len(t) = n - 1}, x \in S}

\* The lowest idle slot takes the next request (slots are interchangeable).
LowestIdle(req, r) == req[r].pc = "idle" /\ \A q \in DOMAIN req : q < r => req[q].pc # "idle"

\* db.vendors.find_one(filter): the index of the first of the matching
\* documents, 0 when there is none.
FirstIndex(matching) ==
    IF matching = {} THEN 0
    ELSE CHOOSE k \in matching : \A j \in matching : k <= j

\* get_current_vendor: the vendor a bearer token resolves to (0: HTTP 401).
\* A token carries the vendor id it was issued for.
VendorIds == {vendors[k].id : k \in 1..Len(vendors)}
Tokens == VendorIds \cup {0}
CurrentVendor(token) ==
    LET found == FirstIndex({k \in 1..Len(vendors) : vendors[k].id = token})
    IN IF found = 0 THEN 0 ELSE vendors[found].id

\* ------------------------------------------------------- register_vendor
\* existing_vendor = await db.vendors.find_one({"email": vendor_data.email})
ExistingVendor(email) == FirstIndex({k \in 1..Len(vendors) : vendors[k].email = email})

\* POST /auth/register: the email lookup
RegisterFind(s, email, nome_loja) ==
    /\ LowestIdle(regReq, s)
    /\ Len(vendors) + Cardinality({q \in RegSlots : regReq[q].pc = "insert"}) < MaxVendors
    /\ IF ExistingVendor(email) # 0
       THEN /\ resp' = Response("register", 400)
            /\ UNCHANGED regReq
       ELSE /\ regReq' = [regReq EXCEPT ![s] =
                            [pc |-> "insert", email |-> email, nome_loja |-> nome_loja]]
            /\ UNCHANGED resp
    /\ UNCHANGED <<vendors, products, nProducts, orders, updReq, orderReq>>

\* await db.vendors.insert_one(vendor_dict)
RegisterInsert(s) ==
    /\ regReq[s].pc = "insert"
    /\ vendors' = Append(vendors, [id |-> Len(vendors) + 1,
                                   email |-> regReq[s].email,
                                   nome_loja |-> regReq[s].nome_loja])
    /\ regReq' = [regReq EXCEPT ![s] = IdleReg]
    /\ resp' = Response("register", 200)
    /\ UNCHANGED <<products, nProducts, orders, updReq, orderReq>>

\* -------------------------------------------------------------- products
ProductIds == 0..nProducts

\* A slip in the ownership filter: "vendor_id" left out of the query.
OwnsAnyProduct(vendor_id, product_id) == product_id \in DOMAIN products

\* db.products.find_one / update_one / delete_one with filter {"id": product_id}
HasProduct(product_id) == product_id \in DOMAIN products

\* The same with filter {"id": product_id, "vendor_id": current_vendor["id"]}
OwnsProduct(vendor_id, product_id) ==
    /\ product_id \in DOMAIN products
    /\ products[product_id].vendor_id = vendor_id

InsertProduct(doc) == [p \in DOMAIN products \cup {doc.id} |->
                          IF p = doc.id THEN doc ELSE products[p]]

\* {"$set": product_data.dict()}: the ProductCreate fields, nothing else.
SetProductFields(doc, data) ==
    [doc EXCEPT !.nome = data.nome, !.preco = data.preco, !.quantidade = data.quantidade]

\* A slip in the stock update: "$set" where "$inc" was meant.
SetQuantity(doc, amount) == [doc EXCEPT !.quantidade = amount]

\* {"$inc": {"quantidade": -item["quantidade"]}}
IncQuantity(doc, amount) == [doc EXCEPT !.quantidade = @ + amount]

RemoveProduct(product_id) == [p \in DOMAIN products \ {product_id} |-> products[p]]

\* POST /products
CreateProduct(token, nome, preco, quantidade) ==
    /\ nProducts < MaxProducts
    /\ IF CurrentVendor(token) = 0
       THEN /\ resp' = Response("create_product", 401)
            /\ UNCHANGED <<products, nProducts>>
       ELSE /\ products' = InsertProduct([id |-> nProducts + 1,
                                          vendor_id |-> CurrentVendor(token),
                                          nome |-> nome,
                                          preco |-> preco,
                                          quantidade |-> quantidade])
            /\ nProducts' = nProducts + 1
            /\ resp' = Response("create_product", 200)
    /\ UNCHANGED <<vendors, orders, regReq, updReq, orderReq>>

\* PUT /products/{product_id}: the ownership lookup
UpdateProductFind(s, token, product_id, nome, preco, quantidade) ==
    /\ LowestIdle(updReq, s)
    /\ IF CurrentVendor(token) = 0
       THEN /\ resp' = Response("update_product", 401)
            /\ UNCHANGED updReq
       ELSE IF ~OwnsProduct(CurrentVendor(token), product_id)
       THEN /\ resp' = Response("update_product", 404)
            /\ UNCHANGED updReq
       ELSE /\ updReq' = [updReq EXCEPT ![s] =
                            [pc |-> "update", vendor_id |-> CurrentVendor(token),
                             product_id |-> product_id, nome |-> nome,
                             preco |-> preco, quantidade |-> quantidade]]
            /\ UNCHANGED resp
    /\ UNCHANGED <<vendors, products, nProducts, orders, regReq, orderReq>>

\* await db.products.update_one({"id": product_id}, {"$set": product_data.dict()})
UpdateProductSet(s) ==
    /\ updReq[s].pc = "update"
    /\ products' = IF HasProduct(updReq[s].product_id)
                   THEN [products EXCEPT ![updReq[s].product_id] =
                            SetProductFields(@, updReq[s])]
                   ELSE products
    /\ updReq' = [updReq EXCEPT ![s].pc = "reread"]
    /\ UNCHANGED <<vendors, nProducts, orders, regReq, orderReq, resp>>

\* updated_product = await db.products.find_one({"id": product_id});
\* Product(**None) raises when the product was deleted meanwhile (HTTP 500).
UpdateProductReread(s) ==
    /\ updReq[s].pc = "reread"
    /\ resp' = Response("update_product",
                        IF HasProduct(updReq[s].product_id) THEN 200 ELSE 500)
    /\ updReq' = [updReq EXCEPT ![s] = IdleUpd]
    /\ UNCHANGED <<vendors, products, nProducts, orders, regReq, orderReq>>

\* DELETE /products/{product_id}
DeleteProduct(token, product_id) ==
    /\ IF CurrentVendor(token) = 0
       THEN /\ resp' = Response("delete_product", 401)
            /\ UNCHANGED products
       ELSE IF ~OwnsProduct(CurrentVendor(token), product_id)
       THEN /\ resp' = Response("delete_product", 404)
            /\ UNCHANGED products
       ELSE /\ products' = RemoveProduct(product_id)
            /\ resp' = Response("delete_product", 200)
    /\ UNCHANGED <<vendors, nProducts, orders, regReq, updReq, orderReq>>

\* ---------------------------------------------------------------- orders
\* Order(**doc): a document without a "status" key reads as "novo".
OrderStatus(doc) == IF doc.status = NoStatus THEN "novo" ELSE doc.status

\* A line item of the request body: items: List[dict], each of the shape
\* the Order model documents: product_id, nome, preco, quantidade.
Items == [product_id : ProductIds, nome : ProductNames,
          preco : Prices, quantidade : ItemQuantities]

\* A slip in the total: the prices summed without the quantities.
RECURSIVE SumOfPrices(_)
SumOfPrices(items) ==
    IF items = <<>> THEN 0 ELSE items[1].preco + SumOfPrices(Tail(items))

\* total = sum(item["preco"] * item["quantidade"] for item in order_data.items)
RECURSIVE OrderTotal(_)
OrderTotal(items) ==
    IF items = <<>> THEN 0
    ELSE items[1].preco * items[1].quantidade + OrderTotal(Tail(items))

\* Line items stored or in flight, and orders stored or in flight.
RECURSIVE LineItems(_)
LineItems(docs) == IF docs = <<>> THEN 0 ELSE Len(docs[1].items) + LineItems(Tail(docs))

RECURSIVE InFlightItems(_)
InFlightItems(S) ==
    IF S = {} THEN 0
    ELSE LET r == CHOOSE q \in S : TRUE
         IN Len(orderReq[r].items) + InFlightItems(S \ {r})

InFlightOrders == Cardinality({q \in OrderSlots : orderReq[q].pc # "idle"})

\* The item lists a new request may carry: those that fit the bounds.
Requests(S) ==
    LET room == MaxLineItems - LineItems(orders) - InFlightItems(OrderSlots)
    IN IF Len(orders) + InFlightOrders >= MaxOrders \/ room < 0 THEN {}
       ELSE SeqsUpTo(S, IF room < MaxItems THEN room ELSE MaxItems)

\* POST /orders: the request arrives
CreateOrderBegin(r, vendor_id, items) ==
    /\ LowestIdle(orderReq, r)
    /\ Len(orders) + InFlightOrders < MaxOrders
    /\ LineItems(orders) + InFlightItems(OrderSlots) + Len(items) <= MaxLineItems
    /\ orderReq' = [orderReq EXCEPT ![r] =
                      [pc |-> IF Len(items) = 0 THEN "insert" ELSE "validate",
                       vendor_id |-> vendor_id, items |-> items, i |-> 1]]
    /\ UNCHANGED <<vendors, products, nProducts, orders, regReq, updReq, resp>>

\* A slip in the loop structure: each line's stock is taken as soon as the line
\* is validated, so a later line's failure leaves the earlier lines taken.
CreateOrderValidateAndTake(r) ==
    LET item == orderReq[r].items[orderReq[r].i]
    IN /\ orderReq[r].pc = "validate"
       /\ IF ~(item.product_id \in DOMAIN products)
          THEN /\ resp' = Response("create_order", 404)
               /\ orderReq' = [orderReq EXCEPT ![r] = IdleOrder]
               /\ UNCHANGED products
          ELSE IF products[item.product_id].quantidade < item.quantidade
          THEN /\ resp' = Response("create_order", 400)
               /\ orderReq' = [orderReq EXCEPT ![r] = IdleOrder]
               /\ UNCHANGED products
          ELSE /\ products' = [products EXCEPT ![item.product_id].quantidade =
                                  @ - item.quantidade]
               /\ orderReq' = [orderReq EXCEPT ![r] =
                                 IF orderReq[r].i = Len(orderReq[r].items)
                                 THEN [@ EXCEPT !.pc = "insert"]
                                 ELSE [@ EXCEPT !.i = @ + 1]]
               /\ UNCHANGED resp
       /\ UNCHANGED <<vendors, nProducts, orders, regReq, updReq>>

\* product = await db.products.find_one({"id": item["product_id"]}) and its checks
CreateOrderValidate(r) ==
    LET item == orderReq[r].items[orderReq[r].i]
    IN /\ orderReq[r].pc = "validate"
       /\ IF ~HasProduct(item.product_id)
          THEN /\ resp' = Response("create_order", 404)
               /\ orderReq' = [orderReq EXCEPT ![r] = IdleOrder]
          ELSE IF products[item.product_id].quantidade < item.quantidade
          THEN /\ resp' = Response("create_order", 400)
               /\ orderReq' = [orderReq EXCEPT ![r] = IdleOrder]
          ELSE /\ orderReq' = [orderReq EXCEPT ![r] =
                                 IF orderReq[r].i = Len(orderReq[r].items)
                                 THEN [@ EXCEPT !.pc = "decrement", !.i = 1]
                                 ELSE [@ EXCEPT !.i = @ + 1]]
               /\ UNCHANGED resp
       /\ UNCHANGED <<vendors, products, nProducts, orders, regReq, updReq>>

\* A slip in the second loop: the stock of the first line alone is taken.
CreateOrderDecrementOnce(r) ==
    LET item == orderReq[r].items[orderReq[r].i]
    IN /\ orderReq[r].pc = "decrement"
       /\ products' = IF HasProduct(item.product_id)
                      THEN [products EXCEPT ![item.product_id] =
                               IncQuantity(@, -item.quantidade)]
                      ELSE products
       /\ orderReq' = [orderReq EXCEPT ![r] = [@ EXCEPT !.pc = "insert"]]
       /\ UNCHANGED <<vendors, nProducts, orders, regReq, updReq, resp>>

\* await db.products.update_one({"id": ...}, {"$inc": {"quantidade": -item["quantidade"]}})
CreateOrderDecrement(r) ==
    LET item == orderReq[r].items[orderReq[r].i]
    IN /\ orderReq[r].pc = "decrement"
       /\ products' = IF HasProduct(item.product_id)
                      THEN [products EXCEPT ![item.product_id] =
                               IncQuantity(@, -item.quantidade)]
                      ELSE products
       /\ orderReq' = [orderReq EXCEPT ![r] =
                         IF orderReq[r].i = Len(orderReq[r].items)
                         THEN [@ EXCEPT !.pc = "insert"]
                         ELSE [@ EXCEPT !.i = @ + 1]]
       /\ UNCHANGED <<vendors, nProducts, orders, regReq, updReq, resp>>

\* order_dict = order_data.dict() plus id and total; it has no "status" key.
OrderDoc(id, vendor_id, items) ==
    [id |-> id, vendor_id |-> vendor_id, items |-> items,
     total |-> OrderTotal(items), status |-> NoStatus]

\* await db.orders.insert_one(order_dict); return Order(**order_dict)
CreateOrderInsert(r) ==
    /\ orderReq[r].pc = "insert"
    /\ orders' = Append(orders, OrderDoc(Len(orders) + 1, orderReq[r].vendor_id,
                                         orderReq[r].items))
    /\ orderReq' = [orderReq EXCEPT ![r] = IdleOrder]
    /\ resp' = Response("create_order", 200)
    /\ UNCHANGED <<vendors, products, nProducts, regReq, updReq>>

\* A slip in the filter: the order is matched by its id alone.
OwnsAnyOrder(vendor_id, order_id) ==
    order_id \in 1..Len(orders)

\* db.orders.update_one({"id": order_id, "vendor_id": ...}, {"$set": {"status": ...}})
OwnsOrder(vendor_id, order_id) ==
    /\ order_id \in 1..Len(orders)
    /\ orders[order_id].vendor_id = vendor_id

OrderIds == 0..Len(orders)

\* A slip in the status update: every order of the vendor is $set (update_many
\* with the id left out of the filter), and the total is reset with it.
SetStatusOfVendor(vendor_id, order_id, status) ==
    [k \in 1..Len(orders) |->
        IF orders[k].vendor_id = vendor_id
        THEN [orders[k] EXCEPT !.status = status, !.total = 0]
        ELSE orders[k]]

\* update_one(..., {"$set": {"status": status["status"]}}) on the matched order
SetOrderStatus(vendor_id, order_id, status) ==
    [orders EXCEPT ![order_id].status = status]

\* PUT /orders/{order_id}/status
UpdateOrderStatus(token, order_id, status) ==
    /\ IF CurrentVendor(token) = 0
       THEN /\ resp' = Response("update_status", 401)
            /\ UNCHANGED orders
       ELSE IF ~OwnsOrder(CurrentVendor(token), order_id)
       THEN /\ resp' = Response("update_status", 404)
            /\ UNCHANGED orders
       ELSE /\ orders' = SetOrderStatus(CurrentVendor(token), order_id, status)
            /\ resp' = Response("update_status", 200)
    /\ UNCHANGED <<vendors, products, nProducts, regReq, updReq, orderReq>>

\* ---------------------------------------------------------------- dashboard
\* The length given to to_list in get_dashboard.
ToListLimit == 1000

\* db.orders.find({"vendor_id": vendor_id}): the vendor's orders, as stored
VendorOrders(vendor_id) == SelectSeq(orders, LAMBDA doc : doc.vendor_id = vendor_id)

\* cursor.to_list(length): at most length documents of the cursor
ToList(docs, length) ==
    IF Len(docs) <= length THEN docs ELSE SubSeq(docs, 1, length)

\* sum(order.get("total", 0) for order in orders), over docs[lo..hi]; the
\* totals are integers, so adding them by halves gives the sum of the loop.
RECURSIVE SumOfTotals(_, _, _)
SumOfTotals(docs, lo, hi) ==
    IF lo > hi THEN 0
    ELSE IF lo = hi THEN docs[lo].total
    ELSE LET mid == (lo + hi) \div 2
         IN SumOfTotals(docs, lo, mid) + SumOfTotals(docs, mid + 1, hi)

DashboardResponse(total_vendas, quantidade_pedidos) ==
    [op |-> "dashboard", code |-> 200,
     total_vendas |-> total_vendas, quantidade_pedidos |-> quantidade_pedidos]

\* GET /dashboard
GetDashboard(token) ==
    /\ IF CurrentVendor(token) = 0
       THEN resp' = Response("dashboard", 401)
       ELSE LET fetched == ToList(VendorOrders(CurrentVendor(token)), ToListLimit)
            IN resp' = DashboardResponse(SumOfTotals(fetched, 1, Len(fetched)),
                                         Len(fetched))
    /\ UNCHANGED <<vendors, products, nProducts, orders, regReq, updReq, orderReq>>

\* ------------------------------------------------------------------ system
\* The state after construction: empty collections, no request in flight.
Init ==
    /\ vendors = <<>>
    /\ products = <<>>
    /\ nProducts = 0
    /\ orders = <<>>
    /\ regReq = [s \in RegSlots |-> IdleReg]
    /\ updReq = [s \in UpdSlots |-> IdleUpd]
    /\ orderReq = [r \in OrderSlots |-> IdleOrder]
    /\ resp = Response("none", 0)

Register ==
    \/ \E s \in RegSlots, email \in Emails, nome_loja \in StoreNames :
           RegisterFind(s, email, nome_loja)
    \/ \E s \in RegSlots : RegisterInsert(s)

Catalog ==
    \/ \E token \in Tokens, nome \in ProductNames, preco \in Prices,
          quantidade \in ProductQuantities :
           CreateProduct(token, nome, preco, quantidade)
    \/ \E s \in UpdSlots, token \in Tokens, product_id \in ProductIds,
          nome \in ProductNames, preco \in Prices, quantidade \in ProductQuantities :
           UpdateProductFind(s, token, product_id, nome, preco, quantidade)
    \/ \E s \in UpdSlots : UpdateProductSet(s)
    \/ \E s \in UpdSlots : UpdateProductReread(s)
    \/ \E token \in Tokens, product_id \in ProductIds : DeleteProduct(token, product_id)

OrderSteps ==
    \/ \E r \in OrderSlots : CreateOrderValidate(r)
    \/ \E r \in OrderSlots : CreateOrderDecrement(r)
    \/ \E r \in OrderSlots : CreateOrderInsert(r)

Orders ==
    \/ \E r \in OrderSlots, vendor_id \in Tokens, items \in Requests(Items) :
           CreateOrderBegin(r, vendor_id, items)
    \/ OrderSteps

Status ==
    \E token \in Tokens, order_id \in OrderIds, status \in StatusInputs :
        UpdateOrderStatus(token, order_id, status)

Dashboard == \E token \in Tokens : GetDashboard(token)

\* The whole backend.
Next == Register \/ Catalog \/ Orders \/ Status \/ Dashboard

Spec == Init /\ [][Next]_vars

\* ------------------------------------------------------------- subsystems
\* The whole backend has too many states to enumerate with these inputs; each
\* specification below runs some of its routes from a state that Spec reaches
\* (TLC finds InitCatalog and InitOrders among the states of Spec), and each of
\* its steps is a step of Next (TLC checks [][Next]_vars under each of them).

\* Registration alone, from the empty store.
SpecVendors == Init /\ [][Register]_vars

\* Registration with one request at a time: a request arrives when no other
\* is in flight.
NextVendorsSeq ==
    \/ \E email \in Emails, nome_loja \in StoreNames :
           /\ \A q \in RegSlots : regReq[q].pc = "idle"
           /\ RegisterFind(1, email, nome_loja)
    \/ RegisterInsert(1)

SpecVendorsSeq == Init /\ [][NextVendorsSeq]_vars

\* Two registered vendors (register a@x/loja1, then b@x/loja2).
SeedVendors ==
    << [id |-> 1, email |-> "a@x", nome_loja |-> "loja1"],
       [id |-> 2, email |-> "b@x", nome_loja |-> "loja2"] >>

InitCatalog ==
    /\ vendors = SeedVendors
    /\ products = <<>>
    /\ nProducts = 0
    /\ orders = <<>>
    /\ regReq = [s \in RegSlots |-> IdleReg]
    /\ updReq = [s \in UpdSlots |-> IdleUpd]
    /\ orderReq = [r \in OrderSlots |-> IdleOrder]
    /\ resp = Response("none", 0)

\* The product routes of two vendors, for products named alface and
\* quantities -1 and 1.
CatalogNames == {"alface"}
CatalogQuantities == {-1, 1}

NextCatalog ==
    \/ \E token \in Tokens, nome \in CatalogNames, preco \in Prices,
          quantidade \in CatalogQuantities :
           CreateProduct(token, nome, preco, quantidade)
    \/ \E s \in UpdSlots, token \in Tokens, product_id \in ProductIds,
          nome \in CatalogNames, preco \in Prices, quantidade \in CatalogQuantities :
           UpdateProductFind(s, token, product_id, nome, preco, quantidade)
    \/ \E s \in UpdSlots : UpdateProductSet(s)
    \/ \E s \in UpdSlots : UpdateProductReread(s)
    \/ \E token \in Tokens, product_id \in ProductIds : DeleteProduct(token, product_id)

SpecCatalog == InitCatalog /\ [][NextCatalog]_vars

\* Vendor 1 sells one alface at 1, vendor 2 sells two tomate at 2 each
\* (two create_product requests).
SeedProducts ==
    << [id |-> 1, vendor_id |-> 1, nome |-> "alface", preco |-> 1, quantidade |-> 1],
       [id |-> 2, vendor_id |-> 2, nome |-> "tomate", preco |-> 2, quantidade |-> 2] >>

InitOrders ==
    /\ vendors = SeedVendors
    /\ products = SeedProducts
    /\ nProducts = 2
    /\ orders = <<>>
    /\ regReq = [s \in RegSlots |-> IdleReg]
    /\ updReq = [s \in UpdSlots |-> IdleUpd]
    /\ orderReq = [r \in OrderSlots |-> IdleOrder]
    /\ resp = Response("none", 0)

\* Orders placed with vendor 1; the customer's name for a product is "alface".
OrderItems == {it \in Items : it.nome = "alface"}

NextOrders ==
    \/ \E r \in OrderSlots, items \in Requests(OrderItems) :
           CreateOrderBegin(r, 1, items)
    \/ OrderSteps

\* Concurrent create_order requests over a fixed catalogue.
SpecOrders == InitOrders /\ [][NextOrders]_vars

\* A few orders of one tomate each, placed with any vendor id, and their
\* status updates.
StatusItems == {[product_id |-> 2, nome |-> "tomate", preco |-> 2, quantidade |-> 1]}

NextStatus ==
    \/ \E r \in OrderSlots, vendor_id \in Tokens,
          items \in Requests(StatusItems) \ {<<>>} :
           CreateOrderBegin(r, vendor_id, items)
    \/ OrderSteps
    \/ Status

SpecStatus == InitOrders /\ [][NextStatus]_vars

\* One create_order request at a time over the fixed catalogue.
NextOrdersSeq ==
    \/ \E items \in Requests(OrderItems) :
           /\ \A q \in OrderSlots : orderReq[q].pc = "idle"
           /\ CreateOrderBegin(1, 1, items)
    \/ CreateOrderValidate(1)
    \/ CreateOrderDecrement(1)
    \/ CreateOrderInsert(1)

SpecOrdersSeq == InitOrders /\ [][NextOrdersSeq]_vars

\* The shop at work: one-line orders of one unit at price 1 placed one at a
\* time with any vendor id for any product id, while vendor 2 restocks,
\* either vendor deletes products, and the vendors accept or cancel orders
\* between any two store operations of the order.
ShopItems == {it \in Items : it.nome = "alface" /\ it.preco = 1 /\ it.quantidade = 1}
ShopRequests == {items \in Requests(ShopItems) : Len(items) = 1}
ShopStatuses == {"aceito", "cancelado"}

NextShop ==
    \/ \E vendor_id \in Tokens, items \in ShopRequests :
           /\ \A q \in OrderSlots : orderReq[q].pc = "idle"
           /\ CreateOrderBegin(1, vendor_id, items)
    \/ OrderSteps
    \/ \E s \in UpdSlots, product_id \in ProductIds :
           UpdateProductFind(s, 2, product_id, "tomate", 2, 2)
    \/ \E s \in UpdSlots : UpdateProductSet(s)
    \/ \E s \in UpdSlots : UpdateProductReread(s)
    \/ \E token \in Tokens, product_id \in ProductIds : DeleteProduct(token, product_id)
    \/ \E token \in Tokens, order_id \in OrderIds, status \in ShopStatuses :
           UpdateOrderStatus(token, order_id, status)

SpecShop == InitOrders /\ [][NextShop]_vars

\* The dashboard read over stores that already hold orders: none, a few, and
\* as many as to_list takes, one fewer and one more. The orders are of one
\* line for product 1, all of vendor 1, all of vendor 2, or alternating.
DashboardCounts == {0, 1, 2, ToListLimit - 1, ToListLimit, ToListLimit + 1}
DashboardOwners == {<<1, 1>>, <<2, 2>>, <<1, 2>>}
DashboardItems == {it \in Items : it.product_id = 1 /\ it.nome = "alface" /\ it.quantidade = 1}

StoredOrders(n, owners, item, status) ==
    [k \in 1..n |->
        [OrderDoc(k, owners[1 + (k % 2)], <<item>>) EXCEPT !.status = status]]

InitDashboard ==
    /\ vendors = SeedVendors
    /\ products = SeedProducts
    /\ nProducts = 2
    /\ \E n \in DashboardCounts, owners \in DashboardOwners,
          item \in DashboardItems, status \in {NoStatus, "cancelado"} :
           orders = StoredOrders(n, owners, item, status)
    /\ regReq = [s \in RegSlots |-> IdleReg]
    /\ updReq = [s \in UpdSlots |-> IdleUpd]
    /\ orderReq = [r \in OrderSlots |-> IdleOrder]
    /\ resp = Response("none", 0)

SpecDashboard == InitDashboard /\ [][Dashboard]_vars

\* ================================================================== claims

\* The handler in slot r of a multi-step route takes this step.
OrderStepOf(r) == orderReq'[r] # orderReq[r]

\* ------------------------------------------------------------------- C1
\* C1: in every reachable state every stored product has quantidade >= 0.
\* (Stated here as claimed; create_product stores whatever integer it is given.)
C1_QuantityNonNegative ==
    \A p \in DOMAIN products : products[p].quantidade >= 0

\* ------------------------------------------------------------------- C2
SingleLineFor(items, p) ==
    /\ Len(items) = 1
    /\ items[1].product_id = p
    /\ items[1].quantidade > 0

RECURSIVE OrderedQuantity(_, _)
\* The quantity of product p over all lines of the stored orders docs.
OrderedQuantity(docs, p) ==
    IF docs = <<>> THEN 0
    ELSE LET its == docs[1].items
             Line(j) == IF its[j].product_id = p THEN its[j].quantidade ELSE 0
             RECURSIVE Lines(_)
             Lines(j) == IF j = 0 THEN 0 ELSE Line(j) + Lines(j - 1)
         IN Lines(Len(its)) + OrderedQuantity(Tail(docs), p)

\* C2: when the only requests ever accepted or in flight are one-line orders
\* of positive quantity for one product p, the orders that succeeded together
\* ask for no more than p's initial stock (two orders that together exceed
\* it do not both succeed) and p's stock is not negative.
C2_ConcurrentOrdersWithinStock ==
    \A p \in DOMAIN products :
        ( /\ \A k \in 1..Len(orders) : SingleLineFor(orders[k].items, p)
          /\ \A r \in OrderSlots :
                 orderReq[r].pc # "idle" => SingleLineFor(orderReq[r].items, p) )
        => /\ products[p].quantidade >= 0
           /\ OrderedQuantity(orders, p) <= SeedProducts[p].quantidade

\* ------------------------------------------------------------------- C3
\* The line the handler in slot r is validating asks for more than the stock.
OverStock(r) ==
    /\ orderReq[r].pc = "validate"
    /\ HasProduct(orderReq[r].items[orderReq[r].i].product_id)
    /\ products[orderReq[r].items[orderReq[r].i].product_id].quantidade
           < orderReq[r].items[orderReq[r].i].quantidade

InStock(r) ==
    /\ orderReq[r].pc = "validate"
    /\ HasProduct(orderReq[r].items[orderReq[r].i].product_id)
    /\ products[orderReq[r].items[orderReq[r].i].product_id].quantidade
           >= orderReq[r].items[orderReq[r].i].quantidade

\* C4: a create_order request is not rejected at a line that is within the
\* stock; once its lines are validated, each decrement step takes exactly the
\* line's quantity off the line's product and touches nothing else, and the
\* last step appends exactly one order, holding the request's lines and
\* reading as status "novo", and answers 200.
C4_OrderWithinStock ==
    [][\A r \in OrderSlots :
          /\ (InStock(r) /\ OrderStepOf(r))
                 => /\ orderReq'[r].pc \in {"validate", "decrement"}
                    /\ orderReq'[r].items = orderReq[r].items
                    /\ resp' = resp
          /\ (orderReq[r].pc = "decrement" /\ OrderStepOf(r))
                 => LET item == orderReq[r].items[orderReq[r].i]
                    IN /\ HasProduct(item.product_id)
                       /\ products' = [products EXCEPT ![item.product_id].quantidade =
                                          @ - item.quantidade]
                       /\ orders' = orders
                       /\ orderReq'[r].pc \in {"decrement", "insert"}
          /\ (orderReq[r].pc = "insert" /\ OrderStepOf(r))
                 => /\ Len(orders') = Len(orders) + 1
                    /\ SubSeq(orders', 1, Len(orders)) = orders
                    /\ orders'[Len(orders')].items = orderReq[r].items
                    /\ OrderStatus(orders'[Len(orders')]) = "novo"
                    /\ products' = products
                    /\ resp' = Response("create_order", 200)]_vars

\* One order of one alface and two tomate went through: both stocks are 0.
C4_Witness ==
    /\ resp = Response("create_order", 200)
    /\ Len(orders) = 1
    /\ Len(orders[1].items) = 2
    /\ orders[1].items[1].product_id = 1 /\ orders[1].items[1].quantidade = 1
    /\ orders[1].items[2].product_id = 2 /\ orders[1].items[2].quantidade = 2
    /\ OrderStatus(orders[1]) = "novo"
    /\ products[1].quantidade = 0
    /\ products[2].quantidade = 0

\* ------------------------------------------------------------------- C5
\* Sum over the lines 1..n of a stored order of preco times quantidade.
RECURSIVE LineSum(_, _)
LineSum(items, n) ==
    IF n = 0 THEN 0 ELSE LineSum(items, n - 1) + items[n].preco * items[n].quantidade

\* C5: the total of every stored order is the sum over its lines of the
\* line's price times the line's quantity.
C5_TotalIsSumOfLines ==
    \A k \in 1..Len(orders) :
        orders[k].total = LineSum(orders[k].items, Len(orders[k].items))

\* An order of one unit at 1 and two units at 2: total 5.
C5_Witness ==
    \E k \in 1..Len(orders) :
        /\ Len(orders[k].items) = 2
        /\ orders[k].items[1].preco = 1 /\ orders[k].items[1].quantidade = 1
        /\ orders[k].items[2].preco = 2 /\ orders[k].items[2].quantidade = 2
        /\ orders[k].total = 5

\* ------------------------------------------------------------------- C6
\* C6: every line of a stored order carries the name and the price of the
\* product it refers to.  (No route changes a product's name or price in
\* SpecOrders, so the stored product is the product at order time.)
C6_SnapshotMatchesProduct ==
    \A k \in 1..Len(orders) :
        \A j \in 1..Len(orders[k].items) :
            LET line == orders[k].items[j]
            IN HasProduct(line.product_id)
                   => /\ line.nome = products[line.product_id].nome
                      /\ line.preco = products[line.product_id].preco

\* ------------------------------------------------------------------- C7
\* Every product that vendor_id does not own is stored unchanged after the step.
OthersProductsKept(vendor_id) ==
    \A p \in DOMAIN products :
        products[p].vendor_id # vendor_id
            => p \in DOMAIN products' /\ products'[p] = products[p]

\* C7: update_product and delete_product called by a vendor on a product of
\* another vendor answer 404 and change nothing, and no step of a product
\* route changes or removes a product that its caller does not own.
C7_ForeignProductUntouched ==
    [][/\ \A s \in UpdSlots, token \in Tokens \ {0}, product_id \in DOMAIN products,
             nome \in ProductNames, preco \in Prices, quantidade \in ProductQuantities :
              ( /\ products[product_id].vendor_id # token
                /\ UpdateProductFind(s, token, product_id, nome, preco, quantidade) )
                  => /\ resp' = Response("update_product", 404)
                     /\ updReq' = updReq
                     /\ products' = products
       /\ \A token \in Tokens \ {0}, product_id \in DOMAIN products :
              ( /\ products[product_id].vendor_id # token
                /\ DeleteProduct(token, product_id) )
                  => /\ resp' = Response("delete_product", 404)
                     /\ products' = products
       /\ \A token \in Tokens, product_id \in ProductIds :
              DeleteProduct(token, product_id) => OthersProductsKept(token)
       /\ \A token \in Tokens, nome \in ProductNames, preco \in Prices,
             quantidade \in ProductQuantities :
              CreateProduct(token, nome, preco, quantidade) => OthersProductsKept(token)
       /\ \A s \in UpdSlots :
              updReq'[s] # updReq[s] => OthersProductsKept(updReq[s].vendor_id)
      ]_vars

\* Vendor 2's product is stored and an update or delete was answered 404.
C7_Witness ==
    /\ resp \in {Response("update_product", 404), Response("delete_product", 404)}
    /\ \E p \in DOMAIN products : products[p].vendor_id = 2
    /\ \E p \in DOMAIN products : products[p].vendor_id = 1

\* ------------------------------------------------------------------- C8
\* status: str = "novo"  # novo, aceito, em_preparo, entregue, cancelado
LegalStatuses == {"novo", "aceito", "em_preparo", "entregue", "cancelado"}

LegalTransitions ==
    { <<"novo", "aceito">>, <<"aceito", "em_preparo">>, <<"em_preparo", "entregue">>,
      <<"novo", "cancelado">>, <<"aceito", "cancelado">>, <<"em_preparo", "cancelado">> }

\* C8: an order's status is one of the five statuses, and a step changes it
\* only along novo -> aceito -> em_preparo -> entregue or to cancelado from a
\* status that is not final.
C8_StatusLifecycle ==
    [][\A k \in 1..Len(orders) :
          /\ OrderStatus(orders'[k]) \in LegalStatuses
          /\ \/ OrderStatus(orders'[k]) = OrderStatus(orders[k])
             \/ <<OrderStatus(orders[k]), OrderStatus(orders'[k])>> \in LegalTransitions]_vars

\* ------------------------------------------------------------------- C9
\* C9: no two vendors share an email.
C9_EmailUnique ==
    \A j, k \in 1..Len(vendors) : vendors[j].email = vendors[k].email => j = k

\* ------------------------------------------------------------------ C10
\* GET /loja/{nome_loja}, GET /categorias/{nome_loja}: the vendors the store
\* name matches (find_one answers the first).
StoreVendors(nome_loja) == {k \in 1..Len(vendors) : vendors[k].nome_loja = nome_loja}

\* C10: no two vendors share a store name: a store name matches at most one
\* vendor.
C10_StoreNameUnique ==
    \A nome_loja \in StoreNames : Cardinality(StoreVendors(nome_loja)) <= 1

\* ------------------------------------------------------------------ C11
\* C11: a stored order stays stored, and its id, total, lines and vendor_id
\* never change, whichever route takes the step; a step changes the status
\* of at most one order.
C11_OrderImmutable ==
    [][/\ Len(orders') >= Len(orders)
       /\ \A k \in 1..Len(orders) :
              /\ orders'[k].id = orders[k].id
              /\ orders'[k].total = orders[k].total
              /\ orders'[k].items = orders[k].items
              /\ orders'[k].vendor_id = orders[k].vendor_id
       /\ Cardinality({k \in 1..Len(orders) : orders'[k].status # orders[k].status}) <= 1
      ]_vars

\* Two orders of vendor 1 are stored, one of them cancelled, after the product
\* of the first was restocked under another name and price and the product of
\* the second was deleted.
C11_Witness ==
    /\ Len(orders) = 2
    /\ orders[1].vendor_id = 1 /\ orders[2].vendor_id = 1
    /\ orders[1].items[1].product_id = 2 /\ orders[1].total = 1
    /\ orders[2].items[1].product_id = 1
    /\ OrderStatus(orders[1]) = "cancelado"
    /\ OrderStatus(orders[2]) = "novo"
    /\ ~HasProduct(1)
    /\ HasProduct(2) /\ products[2].nome = "tomate" /\ products[2].preco = 2
    /\ products[2].quantidade = 2

\* ------------------------------------------------------------------ C12
\* C12: update_status by an authenticated vendor on an order of another
\* vendor, or on an id of no order, answers 404 and changes no order; and a
\* step that changes an order's status is an update_status authenticated as
\* the vendor the order names.
C12_StatusOnlyByOwner ==
    [][/\ \A token \in VendorIds, order_id \in OrderIds, status \in StatusInputs :
              (/\ UpdateOrderStatus(token, order_id, status)
               /\ \/ order_id \notin 1..Len(orders)
                  \/ orders[order_id].vendor_id # token)
              => /\ resp' = Response("update_status", 404)
                 /\ orders' = orders
       /\ \A k \in 1..Len(orders) :
              (k <= Len(orders') /\ orders'[k].status # orders[k].status)
              => \E status \in StatusInputs :
                     UpdateOrderStatus(orders[k].vendor_id, k, status)
      ]_vars

\* update_status has just answered 404 while vendor 2 holds an order it has
\* accepted and vendor 1 holds one nobody has touched.
C12_Witness ==
    /\ resp = Response("update_status", 404)
    /\ Len(orders) = 2
    /\ orders[1].vendor_id = 2 /\ OrderStatus(orders[1]) = "aceito"
    /\ orders[2].vendor_id = 1 /\ orders[2].status = NoStatus

\* ------------------------------------------------------------------ C13
\* The line items of every stored order name a product id that was given out.
LinesNameProducts(docs) ==
    \A k \in 1..Len(docs) : \A n \in 1..Len(docs[k].items) :
        docs[k].items[n].product_id \in 1..nProducts

\* A create_order step that answers 404 leaves every product as it was.
NotFoundKeepsStock ==
    \A r \in OrderSlots :
        (OrderStepOf(r) /\ orderReq'[r] = IdleOrder
           /\ resp' = Response("create_order", 404))
        => products' = products

\* C13: every order create_order stores names an existing vendor and, in each
\* line, a product that existed; a request naming a missing product answers
\* 404 and changes no stock.
C13_OrderReferencesExist ==
    [][/\ \A k \in 1..Len(orders') : orders'[k].vendor_id \in VendorIds
       /\ LinesNameProducts(orders')
       /\ NotFoundKeepsStock
      ]_vars

\* ------------------------------------------------------------------ C14
\* C14: for every vendor and every number of stored orders, the dashboard's
\* total_vendas is the sum of total over all of the vendor's orders, whatever
\* their status, and quantidade_pedidos is the number of the vendor's orders.
C14_DashboardCountsAllOrders ==
    [][\A token \in VendorIds :
          GetDashboard(token)
          => LET mine == VendorOrders(token)
             IN /\ resp'.total_vendas = SumOfTotals(mine, 1, Len(mine))
                /\ resp'.quantidade_pedidos = Len(mine)
      ]_vars

\* ------------------------------------------------------------------ C15
\* The request in slot r has passed validation and lists product p in more
\* than one line.
AcceptedWithRepeatedLines(r, p) ==
    /\ orderReq[r].pc \in {"decrement", "insert"}
    /\ Cardinality({n \in 1..Len(orderReq[r].items) :
                       orderReq[r].items[n].product_id = p}) > 1

\* C15: with one request at a time, a request that lists a product in more
\* than one line is accepted only if those lines together ask for no more than
\* the product's stock (read when validation has just ended, before the first
\* decrement), and its decrements never leave that product below zero.
C15_RepeatedLinesWithinStock ==
    \A r \in OrderSlots : \A p \in DOMAIN products :
        AcceptedWithRepeatedLines(r, p)
        => /\ (orderReq[r].pc = "decrement" /\ orderReq[r].i = 1)
                  => OrderedQuantity(<<orderReq[r]>>, p) <= products[p].quantidade
           /\ products[p].quantidade >= 0

\* ------------------------------------------------------------------ C16
\* C16: no step of create_order raises the quantidade of a product, whatever
\* the quantities of the request's lines; so no request does.
C16_OrderNeverRaisesStock ==
    [][\A r \in OrderSlots :
          OrderStepOf(r)
          => \A p \in DOMAIN products :
                 products'[p].quantidade <= products[p].quantidade
      ]_vars

\* ------------------------------------------------------------------ C17
\* No create_order request is in progress.
NoOrderInProgress == \A r \in OrderSlots : orderReq[r].pc = "idle"

DecrementOfDeleted(r) ==
    /\ orderReq[r].pc = "decrement"
    /\ ~HasProduct(orderReq[r].items[orderReq[r].i].product_id)

\* C18: with delete_product running between the store operations of
\* create_order, a request whose decrement step finds its product deleted
\* does not go on to the next line or to the insert: no order is stored for
\* a line whose stock was not taken.
C18_NoOrderForDeletedProduct ==
    [][\A r \in OrderSlots :
          (DecrementOfDeleted(r) /\ OrderStepOf(r))
          => orderReq'[r].pc \notin {"decrement", "insert"}
      ]_vars

=============================================================================
